---- MODULE Spec2Model ----
(***************************************************************************)
(* Model of the PyRep binding layer: Light.randomize_params,               *)
(* Texture.create / Texture.__init__ / Texture.remove and the joint-group  *)
(* setters of RobotComponent.  The simulator backend (module sim) is the   *)
(* environment: it is modelled as the store its API documents, and every   *)
(* backend call a method issues is recorded in the trace of that call.     *)
(***************************************************************************)
EXTENDS Integers, Sequences, FiniteSets, TLC

(* ------------------------------ bounds --------------------------------- *)
\* the uniform draw u and p_active are multiples of 1/Resolution
Resolution == 2
\* colour parts (diffuse / specular) are abstract values 1..MaxPart
MaxPart == 2
\* number of Texture instances built in one behaviour
MaxTextures == 3
\* texture ids handed out by the simulator are 1..MaxTexId
MaxTexId == 2
\* largest number of joints in a RobotComponent
MaxJoints == 2

VARIABLES
    light_sim,      \* simulator: (active, diffuse, specular) of the light's handle
    light_initial,  \* Light._initial_state/_initial_diffuse_part/_initial_specular_part
    light_call,     \* last randomize_params call: its draw, p_active and return value
    textures,       \* the Texture instances, in order of construction
    scene,          \* simulator: handles of the objects on the scene
    shape_options,  \* simulator: options of every shape ever created by simCreateTexture
    tex_call,       \* last Texture.remove call and how it ended
    num_joints,     \* RobotComponent._num_joints = len(self.joints)
    model_prop,     \* simulator: model property of the component's handle (set of bits)
    joint_pos,      \* simulator: intrinsic position of every joint
    joint_target,   \* simulator: target position of every joint
    rc_call         \* last RobotComponent setter call, its backend trace and outcome

lightVars == <<light_sim, light_initial, light_call>>
texVars == <<textures, scene, shape_options, tex_call>>
rcVars == <<num_joints, model_prop, joint_pos, joint_target, rc_call>>
vars == <<light_sim, light_initial, light_call, textures, scene, shape_options,
          tex_call, num_joints, model_prop, joint_pos, joint_target, rc_call>>

(* =============================== Light ================================= *)
Parts == 1..MaxPart
\* np.random.random() returns u in [0,1): u = d / Resolution, d in Draws
Draws == 0..(Resolution - 1)
\* p_active in [0,1]: p_active = q / Resolution, q in Probs
Probs == 0..Resolution

NoLightCall == [called |-> FALSE, u |-> 0, p_active |-> 0,
                active |-> 0, diffuse |-> 1, specular |-> 1]

\* Light.__init__: the initial parameters are read from the simulator
LightInit ==
    /\ light_sim \in [active : {0, 1}, diffuse : Parts, specular : Parts]
    /\ light_initial = light_sim
    /\ light_call = NoLightCall

\* the activation state chosen by randomize_params for draw u
Activation(u, p_active) == IF u < p_active THEN 0 ELSE 1

\* the simulator's parameters after randomize_params has chosen `active`
LightParamsAfter(old, active, diffuse_part, specular_part) ==
    IF active = 0
    THEN old
    ELSE [active |-> active, diffuse |-> diffuse_part, specular |-> specular_part]

\* Light.randomize_params: the two parts are samples of random_sample, u is
\* the draw of np.random.random()
randomize_params(p_active, diffuse_part, specular_part, u) ==
    LET active == Activation(u, p_active) IN
    /\ light_sim' = LightParamsAfter(light_sim, active, diffuse_part, specular_part)
    /\ light_call' = [called |-> TRUE, u |-> u, p_active |-> p_active,
                      active |-> active, diffuse |-> diffuse_part,
                      specular |-> specular_part]
    /\ UNCHANGED light_initial

RandomizeParams ==
    /\ \E p_active \in Probs, d \in Parts, s \in Parts, u \in Draws :
          randomize_params(p_active, d, s, u)
    /\ UNCHANGED <<texVars, rcVars>>

(* ============================== Texture ================================ *)
TexIds == 1..MaxTexId
\* the value of a Texture whose attribute _handle was never assigned
Unset == -1

\* (interpolate, decal_mode, repeat_along_u, repeat_along_v) of Texture.create
CreateFlags == { <<TRUE, FALSE, FALSE, FALSE>>, <<FALSE, FALSE, FALSE, FALSE>>,
                 <<TRUE, TRUE, TRUE, TRUE>>, <<FALSE, TRUE, FALSE, TRUE>> }

\* options |= 1, 2, 4, 8 of Texture.create
TextureOptions(f) ==
    (IF f[1] THEN 1 ELSE 0) + (IF f[2] THEN 2 ELSE 0)
  + (IF f[3] THEN 4 ELSE 0) + (IF f[4] THEN 8 ELSE 0)

NoTexCall == [called |-> FALSE, idx |-> 0, handle |-> Unset,
              on_scene |-> FALSE, outcome |-> "none"]

TextureInit ==
    /\ textures = <<>>
    /\ scene = {}
    /\ shape_options = <<>>
    /\ tex_call = NoTexCall

\* Texture.__init__(texture_id): only _texture_id is assigned
TextureNew(texture_id) == [texture_id |-> texture_id, handle |-> Unset]

\* Texture(texture_id) called directly
TextureConstruct ==
    /\ Len(textures) < MaxTextures
    /\ \E tid \in TexIds : textures' = Append(textures, TextureNew(tid))
    /\ UNCHANGED <<scene, shape_options, tex_call>>
    /\ UNCHANGED <<lightVars, rcVars>>

\* Texture.create: simCreateTexture returns a new shape handle, whose
\* texture id the simulator chooses
TextureCreate ==
    /\ Len(textures) < MaxTextures
    /\ \E f \in CreateFlags, tid \in TexIds :
          LET h_texture == Len(shape_options) + 1 IN
          /\ shape_options' = Append(shape_options, TextureOptions(f))
          /\ scene' = scene \cup {h_texture}
          /\ textures' = Append(textures,
                 [TextureNew(tid) EXCEPT !.handle = h_texture])
    /\ UNCHANGED tex_call
    /\ UNCHANGED <<lightVars, rcVars>>

\* how Texture.remove ends for an instance with the given _handle
RemoveOutcome(handle, sc) ==
    IF handle = Unset THEN "AttributeError"
    ELSE IF handle \in sc THEN "removed"
    ELSE "ObjectAlreadyRemovedError"

\* Texture.remove of the idx-th instance
TextureRemove ==
    /\ \E idx \in 1..Len(textures) :
          LET h == textures[idx].handle
              out == RemoveOutcome(h, scene) IN
          /\ scene' = IF out = "removed" THEN scene \ {h} ELSE scene
          /\ tex_call' = [called |-> TRUE, idx |-> idx, handle |-> h,
                          on_scene |-> h \in scene, outcome |-> out]
    /\ UNCHANGED <<textures, shape_options>>
    /\ UNCHANGED <<lightVars, rcVars>>

(* =========================== RobotComponent ============================ *)
\* input lists are of every length up to one more than the largest joint group
MaxLen == MaxJoints + 1
\* the value lists given to the setters: one per length, whose i-th value is
\* i (the joints start at 0, so every write is visible)
ValueLists == { [i \in 1..k |-> i] : k \in 0..MaxLen }
\* the cyclic lists given to set_joint_intervals
CyclicLists == { [i \in 1..k |-> c] : k \in 0..MaxLen, c \in BOOLEAN }
Min(a, b) == IF a < b THEN a ELSE b

\* A model property is an integer of flag bits; it is kept as the set of the
\* positions of its 1 bits, so that x | y is the union, and x - y, for y
\* contained in x, the difference.
sim_modelproperty_not_collidable == {0}
sim_modelproperty_not_dynamic == {5}
sim_modelproperty_not_model == {12, 13, 14, 15}

\* the properties simGetModelProperty reports before any call
ModelProps ==
    { f \cup m : f \in SUBSET (sim_modelproperty_not_collidable
                               \cup sim_modelproperty_not_dynamic),
                 m \in {{}, sim_modelproperty_not_model} }

\* Object.is_model: not (prop & sim_modelproperty_not_model)
is_model(prop) == prop \cap sim_modelproperty_not_model = {}

\* Object.set_model(value): the property it writes when it reads `current`
set_model(current, value) ==
    IF value
    THEN (current \cup sim_modelproperty_not_model) \ sim_modelproperty_not_model
    ELSE current \cup sim_modelproperty_not_model

\* one call of the backend, or of a Joint method, issued by a setter
Call(fn, joint, val, cyc, prop) ==
    [fn |-> fn, joint |-> joint, val |-> val, cyc |-> cyc, prop |-> prop]
PropCall(prop) == Call("simSetModelProperty", 0, 0, FALSE, prop)
StepCall == Call("simExtStep", 0, 0, FALSE, {})

\* the calls [j.fn(v) for j, v in zip(self.joints, values)] on the first n pairs
JointCalls(fn, values, n) ==
    [i \in 1..n |-> Call(fn, i, values[i], FALSE, {})]

\* the values of the joints after the first n pairs of zip(joints, values)
\* have been written
Written(old, values, n) ==
    [i \in 1..Len(old) |-> IF i <= n THEN values[i] ELSE old[i]]

\* a length check that only rejects lists that are too short
AssertLenTooShortOnly(n, inputs) == n > Len(inputs)

\* RobotComponent._assert_len: TRUE when it raises RuntimeError
_assert_len(n, inputs) == n # Len(inputs)

CallRecord(op, force, inputs, cyclic, raised, by, trace) ==
    [op |-> op, allow_force_mode |-> force, inputs |-> inputs,
     cyclic |-> cyclic, raised |-> raised, raised_by |-> by,
     trace |-> trace, prior_prop |-> model_prop]
NoCall == [op |-> "none", allow_force_mode |-> FALSE, inputs |-> <<>>,
           cyclic |-> <<>>, raised |-> "none", raised_by |-> "none",
           trace |-> <<>>, prior_prop |-> {}]

\* RobotComponent.__init__ on a scene whose joints are at position 0
RobotInit ==
    /\ num_joints \in 0..MaxJoints
    /\ model_prop \in ModelProps
    /\ joint_pos = [i \in 1..num_joints |-> 0]
    /\ joint_target = [i \in 1..num_joints |-> 0]
    /\ rc_call = NoCall

\* the component of a behaviour that makes no call on it
RobotIdle ==
    /\ num_joints = 0
    /\ model_prop = {}
    /\ joint_pos = <<>>
    /\ joint_target = <<>>
    /\ rc_call = NoCall

\* the Joint calls of a comprehension over k pairs that may raise: none (0),
\* or the fail-th of them
FailPoints(k) == 0..k

\* the number of pairs of zip(self.joints, inputs) a setter iterates over
\* (none when the length check raises)
Pairs(inputs) ==
    IF _assert_len(num_joints, inputs) THEN 0
    ELSE Min(num_joints, Len(inputs))

\* a setter that is the length check followed by one comprehension over
\* zip(self.joints, inputs); the fail-th Joint call raises (0: none does)
PlainSetter(op, force, fn, inputs, fail, writes_pos, writes_target) ==
    IF _assert_len(num_joints, inputs)
    THEN /\ fail = 0
         /\ rc_call' = CallRecord(op, force, inputs, <<>>, "RuntimeError",
                                  "_assert_len", <<>>)
         /\ UNCHANGED <<num_joints, model_prop, joint_pos, joint_target>>
    ELSE LET n == Min(num_joints, Len(inputs))
             issued == IF fail = 0 THEN n ELSE fail
             done == IF fail = 0 THEN n ELSE fail - 1
         IN /\ fail <= n
            /\ rc_call' = CallRecord(op, force, inputs, <<>>,
                              IF fail # 0 THEN "RuntimeError" ELSE "none",
                              IF fail # 0 THEN "sim" ELSE "none",
                              JointCalls(fn, inputs, issued))
            /\ joint_pos' = IF writes_pos THEN Written(joint_pos, inputs, done)
                            ELSE joint_pos
            /\ joint_target' = IF writes_target
                               THEN Written(joint_target, inputs, done)
                               ELSE joint_target
            /\ UNCHANGED <<num_joints, model_prop>>

\* the allow_force_mode branch without its closing self.set_model(is_model)
ModelPropertyWithoutSetModel(prop0) ==
    IF is_model(prop0) THEN prop0 ELSE set_model(prop0, TRUE)

\* the model property set_joint_positions leaves behind when it returns from
\* its allow_force_mode branch, having found the property prop0
ModelPropertyAfterForceMode(prop0) ==
    LET was_model == is_model(prop0)
        prior == IF was_model THEN prop0 ELSE set_model(prop0, TRUE)
    IN set_model(prior, was_model)

\* the backend calls of the allow_force_mode branch, in the order of the code
ForceModeTrace(prop0, positions, n) ==
    LET was_model == is_model(prop0)
        prior == IF was_model THEN prop0 ELSE set_model(prop0, TRUE)
        p == prior \cup sim_modelproperty_not_dynamic
    IN (IF was_model THEN <<>> ELSE <<PropCall(prior)>>)
       \o <<PropCall(p)>>
       \o JointCalls("set_joint_position", positions, n)
       \o JointCalls("set_joint_target_position", positions, n)
       \o <<StepCall, PropCall(prior), PropCall(ModelPropertyAfterForceMode(prop0))>>

\* RobotComponent.set_joint_positions(positions, allow_force_mode)
set_joint_positions(positions, allow_force_mode, fail) ==
    IF ~allow_force_mode \/ _assert_len(num_joints, positions)
    THEN PlainSetter("set_joint_positions", allow_force_mode,
                     "set_joint_position", positions, fail, TRUE, FALSE)
    ELSE LET n == Min(num_joints, Len(positions))
             was_model == is_model(model_prop)
             prior == IF was_model THEN model_prop
                      ELSE set_model(model_prop, TRUE)
             p == prior \cup sim_modelproperty_not_dynamic
             full == ForceModeTrace(model_prop, positions, n)
             head == IF was_model THEN 1 ELSE 2
         IN /\ fail <= 2 * n
            /\ IF fail = 0
               THEN /\ rc_call' = CallRecord("set_joint_positions", TRUE,
                                      positions, <<>>, "none", "none", full)
                    /\ model_prop' = ModelPropertyAfterForceMode(model_prop)
                    /\ joint_pos' = Written(joint_pos, positions, n)
                    /\ joint_target' = Written(joint_target, positions, n)
               ELSE /\ rc_call' = CallRecord("set_joint_positions", TRUE,
                                      positions, <<>>, "RuntimeError", "sim",
                                      SubSeq(full, 1, head + fail))
                    /\ model_prop' = p
                    /\ joint_pos' = Written(joint_pos, positions,
                                            Min(fail - 1, n))
                    /\ joint_target' = Written(joint_target, positions,
                                 IF fail - 1 > n THEN fail - 1 - n ELSE 0)
            /\ UNCHANGED num_joints

SetJointPositions ==
    /\ \E positions \in ValueLists, allow_force_mode \in BOOLEAN :
       \E fail \in FailPoints(2 * Pairs(positions)) :
          set_joint_positions(positions, allow_force_mode, fail)
    /\ UNCHANGED <<lightVars, texVars>>

\* RobotComponent.set_joint_target_positions(positions)
SetJointTargetPositions ==
    /\ \E positions \in ValueLists : \E fail \in FailPoints(Pairs(positions)) :
          PlainSetter("set_joint_target_positions", FALSE,
                      "set_joint_target_position", positions, fail, FALSE, TRUE)
    /\ UNCHANGED <<lightVars, texVars>>

\* RobotComponent.set_joint_target_velocities(velocities)
SetJointTargetVelocities ==
    /\ \E velocities \in ValueLists : \E fail \in FailPoints(Pairs(velocities)) :
          PlainSetter("set_joint_target_velocities", FALSE,
                      "set_joint_target_velocity", velocities, fail, FALSE, FALSE)
    /\ UNCHANGED <<lightVars, texVars>>

\* RobotComponent.set_joint_forces(forces)
SetJointForces ==
    /\ \E forces \in ValueLists : \E fail \in FailPoints(Pairs(forces)) :
          PlainSetter("set_joint_forces", FALSE,
                      "set_joint_force", forces, fail, FALSE, FALSE)
    /\ UNCHANGED <<lightVars, texVars>>

\* RobotComponent.set_joint_intervals(cyclic, intervals)
set_joint_intervals(cyclic, intervals, fail) ==
    IF _assert_len(num_joints, cyclic) \/ _assert_len(num_joints, intervals)
    THEN /\ fail = 0
         /\ rc_call' = CallRecord("set_joint_intervals", FALSE, intervals,
                                  cyclic, "RuntimeError", "_assert_len", <<>>)
         /\ UNCHANGED <<num_joints, model_prop, joint_pos, joint_target>>
    ELSE LET n == Min(num_joints, Min(Len(cyclic), Len(intervals)))
             issued == IF fail = 0 THEN n ELSE fail
         IN /\ fail <= n
            /\ rc_call' = CallRecord("set_joint_intervals", FALSE, intervals,
                              cyclic,
                              IF fail # 0 THEN "RuntimeError" ELSE "none",
                              IF fail # 0 THEN "sim" ELSE "none",
                              [i \in 1..issued |->
                                  Call("set_joint_interval", i, intervals[i],
                                       cyclic[i], {})])
            /\ UNCHANGED <<num_joints, model_prop, joint_pos, joint_target>>

SetJointIntervals ==
    /\ \E cyclic \in CyclicLists, intervals \in ValueLists :
       \E fail \in FailPoints(Min(Pairs(cyclic), Pairs(intervals))) :
          set_joint_intervals(cyclic, intervals, fail)
    /\ UNCHANGED <<lightVars, texVars>>

\* Object.set_model(value) called on the component
SetModel ==
    /\ \E value \in BOOLEAN :
          /\ model_prop' = set_model(model_prop, value)
          /\ rc_call' = CallRecord("set_model", FALSE, <<>>, <<>>, "none",
                            "none", <<PropCall(set_model(model_prop, value))>>)
    /\ UNCHANGED <<num_joints, joint_pos, joint_target>>
    /\ UNCHANGED <<lightVars, texVars>>

(* ============================ specifications =========================== *)
\* the light of a behaviour that makes no call on it
LightIdle ==
    /\ light_sim = [active |-> 0, diffuse |-> 1, specular |-> 1]
    /\ light_initial = light_sim
    /\ light_call = NoLightCall

LightSpecInit == LightInit /\ TextureInit /\ RobotIdle
LightNext == RandomizeParams
LightSpec == LightSpecInit /\ [][LightNext]_vars

TextureSpecInit == LightIdle /\ TextureInit /\ RobotIdle
TextureNext == TextureConstruct \/ TextureCreate \/ TextureRemove
TextureSpec == TextureSpecInit /\ [][TextureNext]_vars

RobotSpecInit == LightIdle /\ TextureInit /\ RobotInit
RobotNext ==
    \/ SetJointPositions
    \/ SetJointTargetPositions
    \/ SetJointTargetVelocities
    \/ SetJointForces
    \/ SetJointIntervals
    \/ SetModel
RobotSpec == RobotSpecInit /\ [][RobotNext]_vars

(* ============================== claims ================================= *)
\* C1: after randomize_params the returned activation state is on (1)
\* exactly when the draw u is below p_active, and off (0) otherwise.
C1_ActiveIffDrawBelowPActive ==
    light_call.called =>
        (light_call.active = 1 <=> light_call.u < light_call.p_active)

\* C2: after randomize_params the simulator's parameters of the light equal
\* the returned triple (active, diffuse_part, specular_part).
C2_SimEqualsReturned ==
    light_call.called =>
        light_sim = [active |-> light_call.active,
                     diffuse |-> light_call.diffuse,
                     specular |-> light_call.specular]

\* C5: Texture.remove either removes the object from the scene or raises
\* ObjectAlreadyRemovedError when it is no longer on the scene, for every
\* instance, however it was obtained.
C5_RemoveRemovesOrAlreadyRemoved ==
    tex_call.called =>
        /\ tex_call.outcome \in {"removed", "ObjectAlreadyRemovedError"}
        /\ tex_call.outcome = "removed" => tex_call.handle \notin scene

LenSetters == {"set_joint_positions", "set_joint_target_positions",
               "set_joint_target_velocities", "set_joint_forces",
               "set_joint_intervals"}

\* the lengths of the list arguments of the last call
ArgLens(c) ==
    IF c.op = "set_joint_intervals" THEN {Len(c.cyclic), Len(c.inputs)}
    ELSE {Len(c.inputs)}

\* C3: a setter given a list whose length differs from the number of joints
\* raises RuntimeError having issued no joint setter, model-property change
\* or simulation step; with matching lengths the length check does not raise.
C3_LengthCheck ==
    rc_call.op \in LenSetters =>
        IF ArgLens(rc_call) # {num_joints}
        THEN /\ rc_call.raised = "RuntimeError"
             /\ rc_call.trace = <<>>
             /\ model_prop = rc_call.prior_prop
        ELSE rc_call.raised_by # "_assert_len"

C3_Witness ==
    /\ rc_call.op = "set_joint_intervals"
    /\ Len(rc_call.cyclic) = num_joints
    /\ Len(rc_call.inputs) > num_joints
    /\ num_joints > 0
    /\ rc_call.raised_by = "_assert_len"

====
